---- MODULE Spec2Model ----
(***************************************************************************)
(* Layout resolution engine of satori-taffy: the batching Taffy backend    *)
(* (TaffyRoot / TaffyNode), the layout engine factory, the satori render   *)
(* pass with its grid fallback, and the intrinsic-measurement bridge.      *)
(*                                                                         *)
(* The repository holds two revisions of the Taffy wrapper                 *)
(* (src/src/taffy/index.ts and src/src/taffy/taffy-prebuilt.ts) and three  *)
(* revisions of the factory (src/src/layout-engine/factory.ts,             *)
(* src/unnamed/part_002, src/unnamed/part_003).  The variables build and   *)
(* factory say which revision a run executes; they never change.           *)
(***************************************************************************)
EXTENDS Integers, Sequences, FiniteSets, TLC

VARIABLES
    \* ---- Taffy backend (TaffyRoot, TaffyNode) ----
    build,                    \* "index" | "prebuilt": the revision of the wrapper
    invalid,                  \* the styles tree.update_style throws on (never changes)
    nodeCount,                \* ids handed out by tree.new_leaf: 0 .. nodeCount-1
    children,                 \* TaffyNode.children of every node
    pendingStyle,             \* TaffyNode.pendingStyle (the staged style)
    styleNeedsUpdate,         \* TaffyNode.styleNeedsUpdate
    pendingStyleUpdates,      \* TaffyRoot.pendingStyleUpdates
    treeStyle,                \* the style the TaffyTree holds (tree.update_style)
    hasLayoutBeenCalculated,  \* TaffyRoot.hasLayoutBeenCalculated
    solvedStyle,              \* the styles the last compute_layout ran on
    writtenSinceSolve,        \* a setter ran after the last compute_layout
    flushLog,                 \* the tree.update_style calls of the last operation
    lastOp,                   \* the last operation on the Taffy backend
    \* ---- engine factory and render passes ----
    factory,                  \* "factory" | "part_002" | "part_003"
    engineType,               \* factory: let engineType
    currentEngine,            \* factory: let currentEngine
    taffyCtor,                \* part_003: globalThis.TaffyNode is set
    engines,                  \* every engine instance constructed so far
    clientCalls,                    \* the number of setLayoutEngine / init calls of the client
    sel,                      \* "none" | "set" | "ready": progress of a re-selection
    pass,                     \* the satori calls (render passes)
    \* ---- measurement bridge ----
    measureFunctions,         \* TaffyRoot.measureFunctions: nodes with a callback
    solveArgs,                \* the running computeLayout(width, height), if any
    lastMeasure,              \* the last call of the measure bridge by the solver
    \* ---- recursion guard of a registered measure function ----
    measureDepth,             \* setMeasureFunction: let measureDepth, per node
    invocations,              \* the invocations of the node's callback in progress
    lastGoodMeasurement,      \* setMeasureFunction: let lastGoodMeasurement, per node
    guardCall,                \* the last invocation of taffyEnhancedMeasureFunc
    \* ---- style translation, grid parser, edges ----
    fnCall,                   \* the function applied last, with its arguments
    fnResult,                 \* what it returned or handed to the backend
    \* ---- first-use initialization of the Taffy backend ----
    taffyInstance,            \* taffy.ts: let taffyInstance is set
    initializationPromise,    \* taffy.ts: let initializationPromise (0 is null)
    imported,                 \* the import('@taffy') promises that have resolved
    wasmInitPromise,          \* index.ts: let wasmInitPromise
    isInitialized,            \* part_007: let isInitialized
    callers,                  \* the concurrent callers and where each one is
    initRuns                  \* how often each underlying initialization ran

taffyVars == <<build, invalid, nodeCount, children, pendingStyle, styleNeedsUpdate,
               pendingStyleUpdates, treeStyle, hasLayoutBeenCalculated,
               solvedStyle, writtenSinceSolve, flushLog, lastOp>>
engineVars == <<factory, engineType, currentEngine, taffyCtor, engines, clientCalls, sel, pass>>
measureVars == <<measureFunctions, solveArgs, lastMeasure>>
guardVars == <<measureDepth, invocations, lastGoodMeasurement, guardCall>>
fnVars == <<fnCall, fnResult>>
initVars == <<taffyInstance, initializationPromise, imported, wasmInitPromise,
              isInitialized, callers, initRuns>>
vars == <<taffyVars, engineVars, measureVars, guardVars, fnVars, initVars>>

None == "none"
NoCall == [op |-> "none"]

\* currentEngine: null, an engine instance (factory.ts, part_003), or the
\* promise of the call that assigned it (part_002).  Engine instances are
\* numbered from 1 in the order of their construction; 0 is no engine.
Null == [kind |-> "null", id |-> 0]
Engine(e) == [kind |-> "engine", id |-> e]
PromiseOf(p) == [kind |-> "promise", id |-> p]

(***************************************************************************)
(* Bounds of the model.                                                    *)
(***************************************************************************)
MaxNodes == 3       \* nodes of one Taffy tree, the root included
MaxWrites == 2      \* setter calls per node
MaxPasses == 2      \* satori / getLayoutEngine calls of one run
MaxElems == 2       \* elements translated in one run
MaxSelects == 2     \* setLayoutEngine / initYoga / initTaffy calls of the client
MaxSize == 2        \* sizes and definite constraints of the measurement bridge
MaxMeasured == 2    \* nodes that can carry a measure function
MaxMeasurement == 2 \* widths a measure function returns
MaxInProgress == 11 \* invocations of measure functions in progress at once
MaxTrackSize == 2   \* numbers written in a grid template
MaxRepeat == 2      \* the count of a repeat()
MaxFlushNodes == 2  \* nodes of the tree whose backend rejects styles
MaxEdgeWrites == 2  \* setter calls and solves before the computed edges are read
MaxCallers == 3     \* concurrent first-use callers of the Taffy backend

\* Engine instances are named by who constructed them: the instance that the
\* getLayoutEngine() call of pass p constructs is p, the one the k-th client
\* call constructs is MaxPasses + k.
EngineIds == 1 .. (MaxPasses + MaxSelects)
NoEngine == [type |-> None, by |-> None, fresh |-> FALSE]

(***************************************************************************)
(* TAFFY BACKEND                                                           *)
(***************************************************************************)
NodeIds == 0 .. (MaxNodes - 1)
MeasureNodes == 0 .. (MaxMeasured - 1)
Builds == {"index", "prebuilt"}
rootNode == 0

Created == 0 .. (nodeCount - 1)

\* The nodes of a child list.
Range(s) == {s[i] : i \in 1 .. Len(s)}

HasParent(c) == \E p \in NodeIds : c \in Range(children[p])

RECURSIVE Descendants(_)
Descendants(n) ==
    LET kids == Range(children[n])
    IN  kids \cup UNION {Descendants(k) : k \in kids}

\* The nodes attached under the tree root, the root included.
Attached == {rootNode} \cup Descendants(rootNode)

\* Document order of the subtree of n: the node, then its children's subtrees.
RECURSIVE PreOrder(_)
RECURSIVE PreOrderFrom(_, _)
PreOrder(n) == <<n>> \o PreOrderFrom(n, 1)
PreOrderFrom(n, i) ==
    IF i > Len(children[n]) THEN <<>>
    ELSE PreOrder(children[n][i]) \o PreOrderFrom(n, i + 1)

\* The flush works on the staged state: what the tree holds, the dirty flags,
\* the root's pending set and the order of the update_style calls.
FlushStart ==
    [tree |-> treeStyle, need |-> styleNeedsUpdate,
     pend |-> pendingStyleUpdates, log |-> <<>>]

\* tree.update_style(nodeId, style) throws on a style the backend rejects.
\* A style is identified by the number of the write that staged it.
update_styleThrows(n) == pendingStyle[n] \in invalid

\* TaffyRoot.updateNodeStyle with the error left to propagate: the id stays
\* in the pending set (not the code).
updateNodeStyleUncaught(n, fs) ==
    [fs EXCEPT !.tree[n] = IF update_styleThrows(n) THEN @ ELSE pendingStyle[n],
               !.pend = IF update_styleThrows(n) THEN @ ELSE @ \ {n},
               !.log = Append(@, n)]

\* TaffyRoot.updateNodeStyle: the error of tree.update_style is caught and
\* logged, and the id leaves the pending set either way.
updateNodeStyle(n, fs) ==
    [fs EXCEPT !.tree[n] = IF update_styleThrows(n) THEN @ ELSE pendingStyle[n],
               !.pend = @ \ {n},
               !.log = Append(@, n)]

applyPendingStyleUpdates(n, fs) ==
    IF fs.need[n]
    THEN [updateNodeStyle(n, fs) EXCEPT !.need[n] = FALSE]
    ELSE fs

RECURSIVE applyChildrenStyleUpdates(_, _)
RECURSIVE applyChildrenFrom(_, _, _)
applyChildrenStyleUpdates(n, fs) == applyChildrenFrom(n, 1, fs)
applyChildrenFrom(n, i, fs) ==
    IF i > Len(children[n]) THEN fs
    ELSE LET child == children[n][i]
         IN  applyChildrenFrom(n, i + 1,
                 applyChildrenStyleUpdates(child, applyPendingStyleUpdates(child, fs)))

applyAllPendingStyleUpdates(fs) ==
    applyChildrenStyleUpdates(rootNode, applyPendingStyleUpdates(rootNode, fs))

\* TaffyRoot.computeLayout up to the call of the solver: index.ts flushes the
\* whole tree first, taffy-prebuilt.ts does not.
computeLayoutFlush(fs) ==
    IF build = "index" THEN applyAllPendingStyleUpdates(fs) ELSE fs

\* TaffyRoot.ensureLayoutCalculated up to the (conditional) call of the solver.
ensureLayoutFlush(fs) ==
    IF build = "index" THEN applyAllPendingStyleUpdates(fs)
    ELSE IF ~hasLayoutBeenCalculated THEN computeLayoutFlush(fs) ELSE fs

\* Install the result of a flush; solve says whether the solver ran after it.
Flushed(fs, solve) ==
    /\ treeStyle' = fs.tree
    /\ styleNeedsUpdate' = fs.need
    /\ pendingStyleUpdates' = fs.pend
    /\ flushLog' = fs.log
    /\ IF solve
       THEN /\ solvedStyle' = fs.tree
            /\ hasLayoutBeenCalculated' = TRUE
            /\ writtenSinceSolve' = FALSE
       ELSE UNCHANGED <<solvedStyle, hasLayoutBeenCalculated, writtenSinceSolve>>

\* TaffyRoot.createNode: tree.new_leaf({}) and a TaffyNode around the new id.
createNode ==
    /\ nodeCount < MaxNodes
    /\ nodeCount' = nodeCount + 1
    /\ lastOp' = [kind |-> "createNode", node |-> nodeCount, afterWrite |-> FALSE]
    /\ UNCHANGED <<build, invalid, children, pendingStyle, styleNeedsUpdate, pendingStyleUpdates,
                   treeStyle, hasLayoutBeenCalculated, solvedStyle, writtenSinceSolve,
                   flushLog>>

\* TaffyNode.addChild.  The layout tree is a tree: the child has no parent yet
\* and is not an ancestor of the parent.
addChild(p, c) ==
    /\ p \in Created /\ c \in Created
    /\ c # rootNode /\ c # p
    /\ ~HasParent(c)
    /\ p \notin Descendants(c)
    /\ children' = [children EXCEPT ![p] = Append(@, c)]
    /\ lastOp' = [kind |-> "addChild", node |-> c, afterWrite |-> FALSE]
    /\ UNCHANGED <<build, invalid, nodeCount, pendingStyle, styleNeedsUpdate, pendingStyleUpdates,
                   treeStyle, hasLayoutBeenCalculated, solvedStyle, writtenSinceSolve,
                   flushLog>>

\* Any style setter of TaffyNode (setWidth, setDisplay, ...): it stores the new
\* value in pendingStyle and calls markStyleUpdate.  The value written is
\* identified by the number of the write on that node.
setStyle(n) ==
    /\ n \in Created
    /\ pendingStyle[n] < MaxWrites
    /\ pendingStyle' = [pendingStyle EXCEPT ![n] = @ + 1]
    /\ styleNeedsUpdate' = [styleNeedsUpdate EXCEPT ![n] = TRUE]
    /\ pendingStyleUpdates' = pendingStyleUpdates \cup {n}
    /\ writtenSinceSolve' = hasLayoutBeenCalculated
    /\ lastOp' = [kind |-> "setStyle", node |-> n, afterWrite |-> FALSE]
    /\ UNCHANGED <<build, invalid, nodeCount, children, treeStyle, hasLayoutBeenCalculated,
                   solvedStyle, flushLog>>

\* TaffyNode.calculateLayout on any node: flush the node and its subtree, then
\* TaffyRoot.computeLayout, then read the node's layout (the getters find the
\* layout calculated and nothing pending).
calculateLayout(n) ==
    /\ n \in Created
    /\ LET own == applyChildrenStyleUpdates(n, applyPendingStyleUpdates(n, FlushStart))
       IN  Flushed(computeLayoutFlush(own), TRUE)
    /\ lastOp' = [kind |-> "calculateLayout", node |-> n, afterWrite |-> FALSE]
    /\ UNCHANGED <<build, invalid, nodeCount, children, pendingStyle>>

\* TaffyRoot.computeLayout called directly.
computeLayout ==
    /\ Flushed(computeLayoutFlush(FlushStart), TRUE)
    /\ lastOp' = [kind |-> "computeLayout", node |-> rootNode, afterWrite |-> FALSE]
    /\ UNCHANGED <<build, invalid, nodeCount, children, pendingStyle>>

\* A geometry getter (getComputedLeft/Top/Width/Height): ensureLayoutCalculated,
\* then tree.layout_*(nodeId), which reads what the last solve computed.
getComputed(n) ==
    /\ n \in Created
    /\ Flushed(ensureLayoutFlush(FlushStart), ~hasLayoutBeenCalculated)
    /\ lastOp' = [kind |-> "getComputed", node |-> n, afterWrite |-> writtenSinceSolve]
    /\ UNCHANGED <<build, invalid, nodeCount, children, pendingStyle>>

\* The wrapper on a backend that rejects some styles: nodes are created,
\* attached and written, and the tree is solved.
NextFlush ==
    /\ \/ nodeCount < MaxFlushNodes /\ createNode
       \/ \E p \in NodeIds, c \in NodeIds : addChild(p, c)
       \/ \E n \in NodeIds : setStyle(n)
       \/ \E n \in NodeIds : calculateLayout(n)
       \/ computeLayout
    /\ UNCHANGED <<engineVars, measureVars, guardVars, fnVars, initVars>>

(***************************************************************************)
(* MEASUREMENT BRIDGE (TaffyRoot.computeLayout, the callback it hands to   *)
(* compute_layout_with_measure; the same text in both builds)              *)
(***************************************************************************)
\* JavaScript values of the bridge: undefined, a number, and
\* Number.MAX_SAFE_INTEGER, which is kept symbolic.
Undefined == [kind |-> "undefined", n |-> 0]
Num(k) == [kind |-> "number", n |-> k]
MAX_SAFE_INTEGER == [kind |-> "MAX_SAFE_INTEGER", n |-> 0]

\* The solver's AvailableSpace of one dimension.
Definite(k) == [tag |-> "Definite", n |-> k]
MaxContent == [tag |-> "MaxContent", n |-> 0]
MinContent == [tag |-> "MinContent", n |-> 0]
AvailableSpaces == {Definite(k) : k \in 0 .. MaxSize} \cup {MaxContent, MinContent}
RootSizes == {Undefined} \cup {Num(k) : k \in 0 .. MaxSize}

NotSolving == [active |-> FALSE, width |-> Undefined, height |-> Undefined]
NoMeasure == [node |-> 0, width |-> MinContent, height |-> MinContent,
              called |-> FALSE, actualAvailableWidth |-> Num(0),
              actualAvailableHeight |-> Num(0), seen |-> FALSE]

\* One dimension of availableSpace as the callback decodes it (the variable
\* starts at 0 and is overwritten by the branch that matches).
decodeAvailableSpace(a) ==
    CASE a.tag = "Definite" -> Num(a.n)
      [] a.tag = "MaxContent" -> MAX_SAFE_INTEGER
      [] a.tag = "MinContent" -> Num(0)
      [] OTHER -> Num(0)

\* The width handed to the measure function: the decoded width, replaced by
\* the root width when it is 0 and the solve has a width but no height.
actualAvailableWidth(a, width, height) ==
    IF decodeAvailableSpace(a) = Num(0) /\ width # Undefined /\ height = Undefined
    THEN width
    ELSE decodeAvailableSpace(a)

\* The height handed to the measure function.
actualAvailableHeight(a) == decodeAvailableSpace(a)

\* TaffyRoot.setMeasureFunction(nodeId, measureFunc).
setMeasureFunction(n) ==
    /\ ~solveArgs.active
    /\ n \notin measureFunctions
    /\ measureFunctions' = measureFunctions \cup {n}
    /\ UNCHANGED <<solveArgs, lastMeasure>>

\* TaffyRoot.removeMeasureFunction(nodeId).
removeMeasureFunction(n) ==
    /\ ~solveArgs.active
    /\ n \in measureFunctions
    /\ measureFunctions' = measureFunctions \ {n}
    /\ UNCHANGED <<solveArgs, lastMeasure>>

\* TaffyRoot.computeLayout(width, height) entering
\* compute_layout_with_measure: only when a measure function is registered.
computeLayoutWithMeasure(width, height) ==
    /\ ~solveArgs.active
    /\ measureFunctions # {}
    /\ solveArgs' = [active |-> TRUE, width |-> width, height |-> height]
    /\ lastMeasure' = NoMeasure
    /\ UNCHANGED measureFunctions

\* The solver calls the bridge for node n with availableSpace (aw, ah): the
\* registered measure function, if any, receives the decoded constraints.
measure(n, aw, ah) ==
    /\ solveArgs.active
    /\ lastMeasure' =
          [node |-> n, width |-> aw, height |-> ah,
           called |-> n \in measureFunctions,
           actualAvailableWidth |-> actualAvailableWidth(aw, solveArgs.width,
                                                         solveArgs.height),
           actualAvailableHeight |-> actualAvailableHeight(ah),
           seen |-> TRUE]
    /\ UNCHANGED <<measureFunctions, solveArgs>>

\* compute_layout_with_measure returns.
computeLayoutReturns ==
    /\ solveArgs.active
    /\ solveArgs' = NotSolving
    /\ UNCHANGED <<measureFunctions, lastMeasure>>

(***************************************************************************)
(* RECURSION GUARD (taffyEnhancedMeasureFunc, the closure that             *)
(* TaffyRoot.setMeasureFunction stores for a node; same text in both       *)
(* builds)                                                                 *)
(***************************************************************************)
MAX_MEASURE_DEPTH == 10

\* A measurement { width, height }, and null.
Measurement(w, h) == [null |-> FALSE, width |-> w, height |-> h]
NullMeasurement == [null |-> TRUE, width |-> 0, height |-> 0]
\* What the wrapped measure function can return.
Measurements == {Measurement(w, 10) : w \in 1 .. MaxMeasurement}
NoGuardCall == [node |-> 0, width |-> 0, inProgress |-> 0, called |-> FALSE,
                returned |-> NullMeasurement, good |-> NullMeasurement,
                seen |-> FALSE]

Max(a, b) == IF a >= b THEN a ELSE b

\* The number of invocations in progress, over all nodes.
RECURSIVE InProgressUpTo(_)
InProgressUpTo(n) == IF n < 0 THEN 0 ELSE measureDepth[n] + InProgressUpTo(n - 1)
InProgress == InProgressUpTo(MaxMeasured - 1)

\* The value the guard returns instead of calling the measure function:
\* lastGoodMeasurement || { width: Math.max(width, 1), height: 20 }.
guardFallback(good, width) ==
    IF good.null THEN Measurement(Max(width, 1), 20) ELSE good

\* A guard that compares with >= and so trips one invocation early.
guardTripsEarly(depth) == depth + 1 >= MAX_MEASURE_DEPTH

\* The test of the guard, made after measureDepth++.
guardTrips(depth) == depth + 1 > MAX_MEASURE_DEPTH

\* setMeasureFunction(n, measureFunc) creates a new closure for node n.
newGuard(n) ==
    /\ invocations[n] = 0
    /\ measureDepth' = [measureDepth EXCEPT ![n] = 0]
    /\ UNCHANGED invocations
    /\ lastGoodMeasurement' = [lastGoodMeasurement EXCEPT ![n] = NullMeasurement]
    /\ guardCall' = NoGuardCall

\* taffyEnhancedMeasureFunc(width, height) is invoked for node n, possibly
\* while earlier invocations of it are in progress: up to the call of the
\* wrapped measure function, or to the return of the guard.
taffyEnhancedMeasureFunc(n, width) ==
    /\ InProgress < MaxInProgress
    /\ IF guardTrips(measureDepth[n])
       THEN /\ guardCall' = [node |-> n, width |-> width,
                             inProgress |-> measureDepth[n], called |-> FALSE,
                             returned |-> guardFallback(lastGoodMeasurement[n], width),
                             good |-> lastGoodMeasurement[n], seen |-> TRUE]
            /\ UNCHANGED <<measureDepth, invocations>>
       ELSE /\ guardCall' = [node |-> n, width |-> width,
                             inProgress |-> measureDepth[n], called |-> TRUE,
                             returned |-> NullMeasurement,
                             good |-> lastGoodMeasurement[n], seen |-> TRUE]
            /\ measureDepth' = [measureDepth EXCEPT ![n] = @ + 1]
            /\ invocations' = [invocations EXCEPT ![n] = @ + 1]
    /\ UNCHANGED lastGoodMeasurement

\* The wrapped measure function of an invocation in progress returns m:
\* lastGoodMeasurement = basicResult; measureDepth--.  Which of the nodes
\* with an invocation in progress returns next is left open.
measureFuncReturns(n, m) ==
    /\ invocations[n] > 0
    /\ lastGoodMeasurement' = [lastGoodMeasurement EXCEPT ![n] = m]
    /\ measureDepth' = [measureDepth EXCEPT ![n] = @ - 1]
    /\ invocations' = [invocations EXCEPT ![n] = @ - 1]
    /\ guardCall' = NoGuardCall

\* The wrapped measure function of an invocation in progress throws: the
\* error leaves taffyEnhancedMeasureFunc at `measureFunc(width, height)`, and
\* the two statements after it do not run.
measureFuncThrows(n) ==
    /\ invocations[n] > 0
    /\ invocations' = [invocations EXCEPT ![n] = @ - 1]
    /\ guardCall' = NoGuardCall
    /\ UNCHANGED <<measureDepth, lastGoodMeasurement>>

NextTaffy ==
    /\ \/ createNode
       \/ \E p \in NodeIds, c \in NodeIds : addChild(p, c)
       \/ \E n \in NodeIds : setStyle(n)
       \/ \E n \in NodeIds : calculateLayout(n)
       \/ computeLayout
       \/ \E n \in NodeIds : getComputed(n)
    /\ UNCHANGED <<engineVars, measureVars, guardVars, fnVars, initVars>>

(***************************************************************************)
(* ENGINE FACTORY AND RENDER PASS                                          *)
(***************************************************************************)
Factories == {"factory", "part_002", "part_003"}
LAYOUT_ENGINE_YOGA == "yoga"
LAYOUT_ENGINE_TAFFY == "taffy"
EngineTypes == {LAYOUT_ENGINE_YOGA, LAYOUT_ENGINE_TAFFY}
Displays == {"flex", "grid"}

\* The translation of the last element of a pass (before any: none).
NoDecision == [display |-> None, warned |-> FALSE, handed |-> None, native |-> None]

Constructed(es, e, t, by) == [es EXCEPT ![e] = [type |-> t, by |-> by, fresh |-> TRUE]]

\* A change of the selection (or an init call) ends the period in which the
\* selection was unchanged: the instances constructed and the calls started
\* before it no longer belong to the current period.
Aged(es) == [i \in EngineIds |-> [es[i] EXCEPT !.fresh = FALSE]]
Overtaken(ps) == [i \in 1 .. Len(ps) |-> [ps[i] EXCEPT !.stable = FALSE]]
TypeOf(e) == engines[e].type
InFlight(p) == pass[p].pc \in {"awaitYoga", "ready"}
Quiet == \A p \in 1 .. Len(pass) : ~InFlight(p)

\* The number of elements translated so far, over all passes.
RECURSIVE TranslatedUpTo(_)
TranslatedUpTo(i) == IF i = 0 THEN 0 ELSE pass[i].idx + TranslatedUpTo(i - 1)
Translated == TranslatedUpTo(Len(pass))

getLayoutEngineType == engineType

\* getLayoutEngine() up to its first await, for the selection et: where the
\* caller continues, the engine it already holds, the instance constructed on
\* the way (None: none) and the new value of currentEngine.
getLayoutEngine(et) ==
    CASE factory = "factory" ->
            IF currentEngine.kind = "engine"
            THEN [pc |-> "ready", engine |-> currentEngine.id, construct |-> None,
                  current |-> currentEngine]
            ELSE IF et = LAYOUT_ENGINE_YOGA
            THEN [pc |-> "awaitYoga", engine |-> 0, construct |-> None,
                  current |-> currentEngine]
            ELSE [pc |-> "threw", engine |-> 0, construct |-> None,
                  current |-> currentEngine]
      [] factory = "part_003" ->
            IF currentEngine.kind = "engine"
            THEN [pc |-> "ready", engine |-> currentEngine.id, construct |-> None,
                  current |-> currentEngine]
            ELSE IF et = LAYOUT_ENGINE_YOGA
            THEN [pc |-> "awaitYoga", engine |-> 0, construct |-> None,
                  current |-> currentEngine]
            ELSE IF ~taffyCtor
            THEN [pc |-> "threw", engine |-> 0, construct |-> None,
                  current |-> currentEngine]
            ELSE [pc |-> "ready", engine |-> Len(pass) + 1,
                  construct |-> LAYOUT_ENGINE_TAFFY, current |-> Engine(Len(pass) + 1)]
      [] factory = "part_002" ->
            IF et = LAYOUT_ENGINE_YOGA
            THEN [pc |-> "awaitYoga", engine |-> 0, construct |-> None,
                  current |-> PromiseOf(Len(pass) + 1)]
            ELSE [pc |-> "ready", engine |-> Len(pass) + 1,
                  construct |-> LAYOUT_ENGINE_TAFFY, current |-> PromiseOf(Len(pass) + 1)]

\* compute(): the display value passed to node.setDisplay, v(style.display, {...}).
DisplayValue(d) ==
    CASE d = "flex" -> "flex"
      [] d = "grid" -> "grid"
      [] d = "block" -> "flex"
      [] d = "none" -> "none"
      [] d = "-webkit-box" -> "flex"
      [] OTHER -> "flex"

\* A Yoga adapter that passes an unknown display through instead of
\* defaulting to flex.
mapDisplayPassThrough(display) ==
    CASE display = "flex" -> "flex"
      [] display = "none" -> "none"
      [] OTHER -> display

\* YogaNodeAdapter.mapDisplay: the display constant the Yoga node receives.
mapDisplay(display) ==
    CASE display = "flex" -> "flex"
      [] display = "none" -> "none"
      [] OTHER -> "flex"

\* TaffyNode.setDisplay: the display the Taffy style receives.
taffySetDisplay(display) ==
    CASE display = "flex" -> "Flex"
      [] display = "grid" -> "Grid"
      [] display = "none" -> "None"
      [] OTHER -> "Flex"

\* setLayoutEngine(type), called by the client.
setLayoutEngine(t) ==
    /\ clientCalls < MaxSelects
    /\ engineType' = t
    /\ clientCalls' = clientCalls + 1
    /\ sel' = IF ~Quiet THEN "none"
              ELSE IF factory = "part_002" THEN "ready" ELSE "set"
    /\ engines' = Aged(engines)
    /\ pass' = Overtaken(pass)
    /\ UNCHANGED <<factory, currentEngine, taffyCtor>>

\* initYoga(yoga), called by the client (factory.ts and part_003 export it).
initYoga ==
    /\ factory \in {"factory", "part_003"}
    /\ clientCalls < MaxSelects
    /\ clientCalls' = clientCalls + 1
    /\ IF engineType = LAYOUT_ENGINE_YOGA
       THEN /\ engines' = Constructed(Aged(engines), MaxPasses + clientCalls + 1,
                                        LAYOUT_ENGINE_YOGA, "init")
            /\ currentEngine' = Engine(MaxPasses + clientCalls + 1)
       ELSE /\ engines' = Aged(engines)
            /\ UNCHANGED currentEngine
    /\ sel' = IF sel = "set" /\ Quiet /\ engineType = LAYOUT_ENGINE_YOGA
              THEN "ready" ELSE "none"
    /\ pass' = Overtaken(pass)
    /\ UNCHANGED <<factory, engineType, taffyCtor>>

\* initTaffy(taffy), called by the client: factory.ts constructs the adapter
\* when taffy is selected, part_003 only stores the constructor.
initTaffy ==
    /\ factory \in {"factory", "part_003"}
    /\ clientCalls < MaxSelects
    /\ clientCalls' = clientCalls + 1
    /\ IF factory = "factory" /\ engineType = LAYOUT_ENGINE_TAFFY
       THEN /\ engines' = Constructed(Aged(engines), MaxPasses + clientCalls + 1,
                                        LAYOUT_ENGINE_TAFFY, "init")
            /\ currentEngine' = Engine(MaxPasses + clientCalls + 1)
       ELSE /\ engines' = Aged(engines)
            /\ UNCHANGED currentEngine
    /\ taffyCtor' = (taffyCtor \/ factory = "part_003")
    /\ sel' = IF sel = "set" /\ Quiet /\ engineType = LAYOUT_ENGINE_TAFFY
              THEN "ready" ELSE "none"
    /\ pass' = Overtaken(pass)
    /\ UNCHANGED <<factory, engineType>>

\* satori(element, options) up to the first await of getLayoutEngine(): the
\* layoutEngine option, when given, overwrites the global selection.  A call
\* that translates no element is a bare getLayoutEngine() call.
satori(opt) ==
    /\ Len(pass) < MaxPasses
    /\ LET et == IF opt # None THEN opt ELSE engineType
           es == IF opt # None THEN Aged(engines) ELSE engines
           ps == IF opt # None THEN Overtaken(pass) ELSE pass
           r == getLayoutEngine(et)
       IN  /\ engineType' = et
           /\ currentEngine' = r.current
           /\ engines' = IF r.construct # None
                         THEN Constructed(es, r.engine, r.construct, "get")
                         ELSE es
           /\ pass' = Append(ps,
                  [pc |-> r.pc, opt |-> opt, idx |-> 0, engine |-> r.engine,
                   warnings |-> 0, grids |-> 0, last |-> NoDecision,
                   wantType |-> IF opt = None /\ sel = "ready" THEN et ELSE None,
                   reselected |-> (opt = None /\ sel = "ready"),
                   stable |-> TRUE])
    /\ sel' = "none"
    /\ UNCHANGED <<factory, taffyCtor, clientCalls>>

\* getLayoutEngine() after `await getYoga()`: the Yoga adapter is constructed
\* and, in factory.ts and part_003, stored in currentEngine.
yogaLoaded(p) ==
    /\ p \in 1 .. Len(pass)
    /\ pass[p].pc = "awaitYoga"
    /\ engines' = [engines EXCEPT ![p] = [type |-> LAYOUT_ENGINE_YOGA, by |-> "get",
                                          fresh |-> pass[p].stable]]
    /\ currentEngine' = IF factory = "part_002" THEN currentEngine ELSE Engine(p)
    /\ pass' = [pass EXCEPT ![p].pc = "ready", ![p].engine = p]
    /\ UNCHANGED <<factory, engineType, taffyCtor, clientCalls, sel>>

\* compute() on the next element of pass p, whose resolved display is d: the
\* grid check reads the global selection, then the display is handed to the
\* pass's layout node.
compute(p, d) ==
    /\ p \in 1 .. Len(pass)
    /\ pass[p].pc = "ready"
    /\ Translated < MaxElems
    /\ LET fallback == d = "grid" /\ getLayoutEngineType = LAYOUT_ENGINE_YOGA
           display == IF fallback THEN "flex" ELSE d
           handed == DisplayValue(display)
           native == IF TypeOf(pass[p].engine) = LAYOUT_ENGINE_YOGA
                     THEN mapDisplay(handed) ELSE taffySetDisplay(handed)
       IN  pass' = [pass EXCEPT
                      ![p].idx = @ + 1,
                      ![p].warnings = @ + (IF fallback THEN 1 ELSE 0),
                      ![p].grids = @ + (IF d = "grid" THEN 1 ELSE 0),
                      ![p].last = [display |-> d, warned |-> fallback,
                                   handed |-> handed, native |-> native]]
    /\ UNCHANGED <<factory, engineType, currentEngine, taffyCtor, engines, clientCalls, sel>>

\* The end of the pass: layoutRoot.calculateLayout and the geometry harvest.
finish(p) ==
    /\ p \in 1 .. Len(pass)
    /\ pass[p].pc = "ready"
    /\ pass' = [pass EXCEPT ![p].pc = "done"]
    /\ UNCHANGED <<factory, engineType, currentEngine, taffyCtor, engines, clientCalls, sel>>

(***************************************************************************)
(* STYLE TRANSLATION (compute.ts setDimension, the adapters' setters)      *)
(***************************************************************************)
\* Style values: a number, undefined, and the strings 'N%', 'Npx', 'N' and
\* 'auto' (parseFloat of a string is its leading number, NaN for 'auto').
NumberValue(k) == [type |-> "number", n |-> k, unit |-> "", nan |-> FALSE]
StringValue(k, u) == [type |-> "string", n |-> k, unit |-> u, nan |-> FALSE]
AutoValue == [type |-> "string", n |-> 0, unit |-> "auto", nan |-> TRUE]
UndefinedValue == [type |-> "undefined", n |-> 0, unit |-> "", nan |-> TRUE]
Units == {"%", "px", ""}
StyleValues ==
    {NumberValue(k) : k \in 0 .. MaxSize}
        \cup {StringValue(k, u) : k \in 0 .. MaxSize, u \in Units}
        \cup {AutoValue, UndefinedValue}

\* What a backend node holds for a dimension: a length in pixels, a
\* percentage (Yoga: the number of percent; Taffy: CompactLength.percent of
\* a fraction, kept as numerator over denominator), auto, or nothing set.
Length(k) == [unit |-> "length", num |-> k, den |-> 1]
YogaPercent(k) == [unit |-> "percent", num |-> k, den |-> 100]
CompactPercent(k, d) == [unit |-> "percent", num |-> k, den |-> d]
Auto == [unit |-> "auto", num |-> 0, den |-> 1]
NotSet == [unit |-> "unset", num |-> 0, den |-> 1]

Dimensions == {"width", "height", "minWidth", "minHeight", "maxWidth", "maxHeight"}
WithAuto == {"width", "height"}

\* setDimension(value, node, setNumber, setPercent, setAuto): the setter it
\* calls and the argument.
setDimension(value, hasAuto) ==
    IF value.type = "number" THEN [setter |-> "setNumber", n |-> value.n]
    ELSE IF value.type = "string"
    THEN IF value.unit = "%"
         THEN IF ~value.nan THEN [setter |-> "setPercent", n |-> value.n]
                            ELSE [setter |-> "none", n |-> 0]
         ELSE IF ~value.nan THEN [setter |-> "setNumber", n |-> value.n]
                            ELSE [setter |-> "none", n |-> 0]
    ELSE IF hasAuto THEN [setter |-> "setAuto", n |-> 0]
    ELSE [setter |-> "none", n |-> 0]

\* The Yoga adapter's set<Dimension>, set<Dimension>Percent, set<Dimension>Auto.
yogaSetDimension(c) ==
    CASE c.setter = "setNumber" -> Length(c.n)
      [] c.setter = "setPercent" -> YogaPercent(c.n)
      [] c.setter = "setAuto" -> Auto
      [] OTHER -> NotSet

\* TaffyNode.set<Dimension>, set<Dimension>Percent (CompactLength.percent of
\* percent / 100.0), set<Dimension>Auto.
taffySetDimension(c) ==
    CASE c.setter = "setNumber" -> Length(c.n)
      [] c.setter = "setPercent" -> CompactPercent(c.n, 100)
      [] c.setter = "setAuto" -> Auto
      [] OTHER -> NotSet

\* YogaNodeAdapter.setFlexBasis(basis): Yoga receives a number in every case.
yogaSetFlexBasis(basis) ==
    IF basis.type = "number" THEN Length(basis.n)
    ELSE IF basis.unit = "auto" THEN Length(0)
    ELSE IF basis.unit = "%" /\ ~basis.nan THEN Length(basis.n)
    ELSE IF ~basis.nan THEN Length(basis.n)
    ELSE Length(0)

\* TaffyNode.setFlexBasis(basis).
taffySetFlexBasis(basis) ==
    IF basis.type = "number" THEN Length(basis.n)
    ELSE IF basis.unit = "auto" THEN Auto
    ELSE IF basis.unit = "%" /\ ~basis.nan THEN CompactPercent(basis.n, 100)
    ELSE IF ~basis.nan THEN Length(basis.n)
    ELSE Auto

\* compute(): setDimension(style.<prop>, node, ...) on the node of adapter a.
translateDimension(a, prop, value) ==
    /\ fnCall' = [op |-> "setDimension", adapter |-> a, prop |-> prop, value |-> value]
    /\ fnResult' = IF a = LAYOUT_ENGINE_YOGA
                   THEN yogaSetDimension(setDimension(value, prop \in WithAuto))
                   ELSE taffySetDimension(setDimension(value, prop \in WithAuto))

\* compute(): node.setFlexBasis(style.flexBasis), when flexBasis is defined.
translateFlexBasis(a, value) ==
    /\ value.type # "undefined"
    /\ fnCall' = [op |-> "setDimension", adapter |-> a, prop |-> "flexBasis",
                  value |-> value]
    /\ fnResult' = IF a = LAYOUT_ENGINE_YOGA
                   THEN yogaSetFlexBasis(value)
                   ELSE taffySetFlexBasis(value)

(***************************************************************************)
(* GRID TEMPLATE PARSER (parser/grid.ts parseGridTemplate) and the         *)
(* conversion of its tracks by TaffyNode.convertTracksToTaffy              *)
(***************************************************************************)
\* A template string is a sequence of lexical atoms: a number with its unit
\* ('20px', '1fr', '50%', '2'), a word ('auto', 'foo'), 'minmax(', 'repeat(',
\* ')', ',' and ' '.
Dim(n, u) == [t |-> "dim", n |-> n, u |-> u]
Word(w) == [t |-> "word", n |-> 0, u |-> w]
Char(c) == [t |-> c, n |-> 0, u |-> ""]

\* JavaScript values held by a GridTrack: a number, NaN, a string, undefined.
JsNumber(n) == [kind |-> "number", n |-> n, s |-> <<>>]
NaN == [kind |-> "NaN", n |-> 0, s |-> <<>>]
JsString(str) == [kind |-> "string", n |-> 0, s |-> str]
JsUndefined == [kind |-> "undefined", n |-> 0, s |-> <<>>]

\* String.prototype.trim.
RECURSIVE TrimStart(_)
TrimStart(str) == IF str # <<>> /\ str[1] = Char(" ") THEN TrimStart(Tail(str)) ELSE str
RECURSIVE TrimEnd(_)
TrimEnd(str) ==
    IF str # <<>> /\ str[Len(str)] = Char(" ")
    THEN TrimEnd(SubSeq(str, 1, Len(str) - 1))
    ELSE str
Trim(str) == TrimEnd(TrimStart(str))

\* str.endsWith(u) for a unit u, str.startsWith('minmax('), parseFloat(str).
EndsWithUnit(str, u) ==
    str # <<>> /\ str[Len(str)].t = "dim" /\ str[Len(str)].u = u
StartsWithMinmax(str) == str # <<>> /\ str[1] = Char("minmax(")
EndsWithClose(str) == str # <<>> /\ str[Len(str)] = Char(")")
parseFloat(str) ==
    IF str # <<>> /\ str[1].t = "dim" THEN JsNumber(str[1].n) ELSE NaN

\* The longest prefix of str without ')': what [^)]+ matches.
RECURSIVE UpToClose(_)
UpToClose(str) ==
    IF str = <<>> \/ str[1] = Char(")") THEN <<>> ELSE <<str[1]>> \o UpToClose(Tail(str))

\* Array(count).fill(templateStr).join(' ').
\* A repeat() that keeps one copy of the pattern (not the code).
RepeatedOnce(count, templateStr) == templateStr

RECURSIVE Repeated(_, _)
Repeated(count, templateStr) ==
    IF count = 0 THEN <<>>
    ELSE IF count = 1 THEN templateStr
    ELSE templateStr \o <<Char(" ")>> \o Repeated(count - 1, templateStr)

\* Whether /repeat\((\d+),\s*([^)]+)\)/ matches at the head of str.
RepeatMatches(str) ==
    /\ Len(str) >= 5
    /\ str[1] = Char("repeat(")
    /\ str[2].t = "dim" /\ str[2].u = ""
    /\ str[3] = Char(",")
    /\ UpToClose(SubSeq(str, 4, Len(str))) # <<>>
    /\ 3 + Len(UpToClose(SubSeq(str, 4, Len(str)))) < Len(str)

\* expandedValue.replace(repeatRegex, ...): every match, left to right.
RECURSIVE expandRepeat(_)
expandRepeat(str) ==
    IF str = <<>> THEN <<>>
    ELSE IF RepeatMatches(str)
    THEN LET template == UpToClose(SubSeq(str, 4, Len(str)))
         IN  Repeated(str[2].n, Trim(template))
                 \o expandRepeat(SubSeq(str, 5 + Len(template), Len(str)))
    ELSE <<str[1]>> \o expandRepeat(Tail(str))

\* The tokenizer loop: split on spaces outside parentheses.
RECURSIVE tokenizeFrom(_, _, _, _, _)
tokenizeFrom(str, i, tokens, current, parenDepth) ==
    IF i > Len(str)
    THEN IF Trim(current) # <<>> THEN Append(tokens, Trim(current)) ELSE tokens
    ELSE LET char == str[i]
             depth == IF char.t \in {"minmax(", "repeat("} THEN parenDepth + 1
                      ELSE IF char = Char(")") THEN parenDepth - 1
                      ELSE parenDepth
         IN  IF char = Char(" ") /\ depth = 0
             THEN IF Trim(current) # <<>>
                  THEN tokenizeFrom(str, i + 1, Append(tokens, Trim(current)), <<>>, depth)
                  ELSE tokenizeFrom(str, i + 1, tokens, current, depth)
             ELSE tokenizeFrom(str, i + 1, tokens, Append(current, char), depth)
tokenize(str) == tokenizeFrom(str, 1, <<>>, <<>>, 0)

\* content.split(','): the parts between the commas.
RECURSIVE splitFrom(_, _, _)
splitFrom(str, i, part) ==
    IF i > Len(str) THEN <<part>>
    ELSE IF str[i] = Char(",") THEN <<part>> \o splitFrom(str, i + 1, <<>>)
    ELSE splitFrom(str, i + 1, Append(part, str[i]))
split(str) == splitFrom(str, 1, <<>>)

\* min.endsWith('px') || min.endsWith('fr') || min.endsWith('%')
\*     ? parseFloat(min) : min
minmaxArgument(arg) ==
    IF EndsWithUnit(arg, "px") \/ EndsWithUnit(arg, "fr") \/ EndsWithUnit(arg, "%")
    THEN parseFloat(arg)
    ELSE JsString(arg)

GridTrack(type, value, min, max) ==
    [type |-> type, value |-> value, min |-> min, max |-> max]
NoTrack == GridTrack("none", JsUndefined, JsUndefined, JsUndefined)

\* The body of the loop over the tokens: the track pushed, none (type
\* "none"), or the TypeError of max.endsWith when max is undefined.
parseToken(tokenStr) ==
    IF tokenStr = <<Word("auto")>>
    THEN [threw |-> FALSE,
          track |-> GridTrack("auto", JsString(tokenStr), JsUndefined, JsUndefined)]
    ELSE IF tokenStr = <<Word("min-content")>>
    THEN [threw |-> FALSE,
          track |-> GridTrack("min-content", JsString(tokenStr), JsUndefined, JsUndefined)]
    ELSE IF tokenStr = <<Word("max-content")>>
    THEN [threw |-> FALSE,
          track |-> GridTrack("max-content", JsString(tokenStr), JsUndefined, JsUndefined)]
    ELSE IF EndsWithUnit(tokenStr, "fr")
    THEN [threw |-> FALSE,
          track |-> GridTrack("fr", parseFloat(tokenStr), JsUndefined, JsUndefined)]
    ELSE IF \E u \in {"px", "em", "rem", "%"} : EndsWithUnit(tokenStr, u)
    THEN [threw |-> FALSE,
          track |-> GridTrack("px", parseFloat(tokenStr), JsUndefined, JsUndefined)]
    ELSE IF StartsWithMinmax(tokenStr) /\ EndsWithClose(tokenStr)
    THEN LET parts == split(SubSeq(tokenStr, 2, Len(tokenStr) - 1))
         IN  IF Len(parts) < 2
             THEN [threw |-> TRUE, track |-> NoTrack]
             ELSE [threw |-> FALSE,
                   track |-> GridTrack("minmax", JsString(tokenStr),
                                       minmaxArgument(Trim(parts[1])),
                                       minmaxArgument(Trim(parts[2])))]
    ELSE IF parseFloat(tokenStr) # NaN
    THEN [threw |-> FALSE,
          track |-> GridTrack("px", parseFloat(tokenStr), JsUndefined, JsUndefined)]
    ELSE [threw |-> FALSE, track |-> NoTrack]

RECURSIVE parseTokens(_, _, _)
parseTokens(tokens, i, tracks) ==
    IF i > Len(tokens) THEN [threw |-> FALSE, tracks |-> tracks]
    ELSE IF parseToken(tokens[i]).threw THEN [threw |-> TRUE, tracks |-> <<>>]
    ELSE IF parseToken(tokens[i]).track = NoTrack THEN parseTokens(tokens, i + 1, tracks)
    ELSE parseTokens(tokens, i + 1, Append(tracks, parseToken(tokens[i]).track))

\* parseGridTemplate(value).
parseGridTemplate(value) ==
    IF value = <<>> \/ value = <<Word("none")>>
    THEN [threw |-> FALSE, tracks |-> <<>>]
    ELSE parseTokens(tokenize(expandRepeat(value)), 1, <<>>)

\* CompactLength values of a track: length and percent as for dimensions,
\* fr(n), and length(NaN).
Fr(n) == [unit |-> "fr", num |-> n, den |-> 1]
LengthNaN == [unit |-> "length", num |-> 0, den |-> 0]
\* CompactLength.length(Number(v)) and CompactLength.fr(Number(v)).
lengthOf(v) == IF v.kind = "number" THEN Length(v.n) ELSE LengthNaN
frOf(v) == IF v.kind = "number" THEN Fr(v.n) ELSE [unit |-> "fr", num |-> 0, den |-> 0]

\* convertToMinTrackSizingFunction(track) for a number or a string.
convertToMinTrackSizingFunction(track) ==
    IF track.kind \in {"number", "NaN"} THEN lengthOf(track) ELSE Auto

\* convertToMaxTrackSizingFunction(track) for a number or a string.
convertToMaxTrackSizingFunction(track) ==
    IF track.kind \in {"number", "NaN"} THEN lengthOf(track) ELSE Auto

\* convertTracksToTaffy(tracks): the { Single: { min, max } } of each track.
convertTrackToTaffy(track) ==
    CASE track.type = "px" -> [min |-> lengthOf(track.value), max |-> lengthOf(track.value)]
      [] track.type = "fr" -> [min |-> Auto, max |-> frOf(track.value)]
      [] track.type = "minmax" ->
            [min |-> convertToMinTrackSizingFunction(track.min),
             max |-> convertToMaxTrackSizingFunction(track.max)]
      [] OTHER -> [min |-> Auto, max |-> Auto]
convertTracksToTaffy(tracks) ==
    [i \in 1 .. Len(tracks) |-> convertTrackToTaffy(tracks[i])]

\* The templates tried: a track, a minmax() of one, two or three arguments or
\* a repeat() of either, alone or after a leading track.
TrackSizes == 1 .. MaxTrackSize
Arguments ==
    {<<Dim(n, u)>> : n \in TrackSizes, u \in {"fr", "px", "%"}} \cup {<<Word("auto")>>}
Minmax2(a, b) == <<Char("minmax(")>> \o a \o <<Char(","), Char(" ")>> \o b \o <<Char(")")>>
RepeatOf(n, pattern) ==
    <<Char("repeat("), Dim(n, ""), Char(","), Char(" ")>> \o pattern \o <<Char(")")>>
\* Patterns of one or two space-separated fr, length or auto tokens.
PlainPatterns == Arguments \cup {a \o <<Char(" ")>> \o b : a, b \in Arguments}
\* "repeat(3, 1fr 10px)"
ExampleRepeat == RepeatOf(3, <<Dim(1, "fr"), Char(" "), Dim(10, "px")>>)
Templates ==
    LET Sized == Arguments \ {<<Word("auto")>>}
        Minmaxes ==
            {<<Char("minmax(")>> \o a \o <<Char(")")>> : a \in Arguments}
                \cup {Minmax2(a, b) : a, b \in Arguments}
                \cup {<<Char("minmax(")>> \o a \o <<Char(","), Char(" ")>> \o b
                         \o <<Char(","), Char(" ")>> \o b \o <<Char(")")>> :
                             a, b \in Arguments}
        Patterns == Arguments \cup {<<Word("foo")>>} \cup Minmaxes
        Items ==
            Patterns \cup {RepeatOf(n, pattern) : n \in 1 .. MaxRepeat, pattern \in Patterns}
                \cup {RepeatOf(n, pattern) : n \in 1 .. MaxRepeat, pattern \in PlainPatterns}
                \cup {ExampleRepeat}
    IN  Items \cup {lead \o <<Char(" ")>> \o item : lead \in Sized, item \in Items}

\* compute(): parseGridProperties(style) parses style.gridTemplateColumns and
\* node.setGridTemplateColumns converts the tracks for Taffy.
setGridTemplateColumns(value) ==
    /\ fnCall' = [op |-> "parseGridTemplate", value |-> value]
    /\ fnResult' = [threw |-> parseGridTemplate(value).threw,
                    tracks |-> parseGridTemplate(value).tracks,
                    taffy |-> convertTracksToTaffy(parseGridTemplate(value).tracks)]

(***************************************************************************)
(* EDGE-INDEXED OPERATIONS.  The adapters take an edge index and pass the  *)
(* value to, or read it from, one side of the backend node.  Modelled are  *)
(* YogaNodeAdapter and the synchronous and the asynchronous                *)
(* TaffyNodeAdapter.                                                       *)
(***************************************************************************)
EDGE_LEFT == 0
EDGE_TOP == 1
EDGE_RIGHT == 2
EDGE_BOTTOM == 3
Edges == {EDGE_LEFT, EDGE_TOP, EDGE_RIGHT, EDGE_BOTTOM}
Sides == {"left", "top", "right", "bottom"}
EdgeAdapters == {"yoga", "taffy", "taffyAsync"}
EdgeSetters == {"setMarginEdge", "setBorderEdge", "setPaddingEdge", "setPosition"}
EdgeGetters == {"getComputedMargin", "getComputedBorder", "getComputedPadding"}
EdgeValues == 1 .. MaxSize

\* YogaNodeAdapter.mapEdgeConstant(edge): the constant of the Yoga module.
mapEdgeConstant(edge) ==
    CASE edge = 0 -> "yoga.EDGE_LEFT"
      [] edge = 1 -> "yoga.EDGE_TOP"
      [] edge = 2 -> "yoga.EDGE_RIGHT"
      [] edge = 3 -> "yoga.EDGE_BOTTOM"
      [] OTHER -> "yoga.EDGE_LEFT"
\* The side of the Yoga node a Yoga constant names.
yogaSide(yogaEdge) ==
    CASE yogaEdge = "yoga.EDGE_LEFT" -> "left"
      [] yogaEdge = "yoga.EDGE_TOP" -> "top"
      [] yogaEdge = "yoga.EDGE_RIGHT" -> "right"
      [] yogaEdge = "yoga.EDGE_BOTTOM" -> "bottom"

\* TaffyNodeAdapter.setMarginEdge / setBorderEdge / setPaddingEdge: the
\* TaffyNode setter (setMarginLeft, ...) the switch calls.
taffySetEdge(edge) ==
    CASE edge = 0 -> "left"
      [] edge = 1 -> "top"
      [] edge = 2 -> "right"
      [] edge = 3 -> "bottom"
\* TaffyNodeAdapter.setPosition: setTop, setRight, setBottom or setLeft.
taffySetPosition(edge) ==
    CASE edge = 0 -> "top"
      [] edge = 1 -> "right"
      [] edge = 2 -> "bottom"
      [] edge = 3 -> "left"
\* TaffyNode.getComputedPadding / Border / Margin, which the synchronous
\* adapter passes the index to: the tracked side returned.
taffyGetComputed(edge) ==
    CASE edge = 0 -> "left"
      [] edge = 1 -> "top"
      [] edge = 2 -> "right"
      [] edge = 3 -> "bottom"
\* The asynchronous TaffyNodeAdapter: set*Edge and setPosition change, and
\* getComputed* read, the side of the style the switch picks.
taffyAsyncEdge(edge) ==
    CASE edge = 0 -> "top"
      [] edge = 1 -> "right"
      [] edge = 2 -> "bottom"
      [] edge = 3 -> "left"

\* The side of the backend node an operation of an adapter reaches.
sideReached(adapter, method, edge) ==
    CASE adapter = "yoga" -> yogaSide(mapEdgeConstant(edge))
      [] adapter = "taffy" ->
            IF method = "setPosition" THEN taffySetPosition(edge)
            ELSE IF method \in EdgeGetters THEN taffyGetComputed(edge)
            ELSE taffySetEdge(edge)
      [] adapter = "taffyAsync" -> taffyAsyncEdge(edge)

\* node.setMarginEdge(edge, value) and the other setters.
setEdge(adapter, method, edge, value) ==
    /\ fnCall' = [op |-> "edge", adapter |-> adapter, method |-> method,
                  edge |-> edge, value |-> value]
    /\ fnResult' = [side |-> sideReached(adapter, method, edge), value |-> value]

\* node.getComputedMargin(edge) and the other getters.
getComputedEdge(adapter, method, edge) ==
    /\ fnCall' = [op |-> "edge", adapter |-> adapter, method |-> method,
                  edge |-> edge, value |-> 0]
    /\ fnResult' = [side |-> sideReached(adapter, method, edge), value |-> 0]

(***************************************************************************)
(* COMPUTE: STYLE RESOLUTION, IMAGE SIZE, BACKEND INITIALIZATION.          *)
(***************************************************************************)
\* A style is a map from property to value; Absent marks a property the
\* object has no key for.
Absent == 0
StyleProps == {"fontSize", "fontWeight"}
PropValues == 1 .. MaxSize
Styles == [StyleProps -> {Absent} \cup PropValues]

\* { ...a, ...b }: the keys of b override those of a.
spread(a, b) == [p \in StyleProps |-> IF b[p] # Absent THEN b[p] ELSE a[p]]

\* expand(style, inheritedStyle) of longhand declarations with absolute
\* values: nothing to expand, nothing relative to the inherited style.
expand(style, inheritedStyle) == style

\* compute(): const style = { ...inheritedStyle, ...expand(presets[type],
\* inheritedStyle), ...expand(definedStyle, inheritedStyle) }.
computeStyle(preset, inheritedStyle, definedStyle) ==
    spread(spread(inheritedStyle, expand(preset, inheritedStyle)),
           expand(definedStyle, inheritedStyle))

resolveStyle(preset, inheritedStyle, definedStyle) ==
    /\ fnCall' = [op |-> "style", preset |-> preset, inherited |-> inheritedStyle,
                  defined |-> definedStyle]
    /\ fnResult' = computeStyle(preset, inheritedStyle, definedStyle)

\* resolveImageData(props.src): [src, width, height], width and height
\* undefined (Absent) when the size cannot be parsed.
ImageSizes == {[width |-> Absent, height |-> Absent]}
                \cup [width : PropValues, height : PropValues]
SizeProps == [width : {Absent} \cup PropValues, height : {Absent} \cup PropValues]

\* compute(), type === 'img': throws when the size cannot be parsed and
\* props.width or props.height is undefined.
imageSizeThrows(image, props) ==
    /\ image.width = Absent /\ image.height = Absent
    /\ (props.width = Absent \/ props.height = Absent)
computeImage(image, props, style) ==
    /\ fnCall' = [op |-> "img", image |-> image, props |-> props, style |-> style]
    /\ fnResult' = IF imageSizeThrows(image, props)
                   THEN [threw |-> TRUE, imageWidth |-> Absent, imageHeight |-> Absent]
                   ELSE IF image.width = Absent /\ image.height = Absent
                   THEN [threw |-> FALSE, imageWidth |-> props.width,
                         imageHeight |-> props.height]
                   ELSE [threw |-> FALSE, imageWidth |-> image.width,
                         imageHeight |-> image.height]

\* Error messages, word by word.
Causes == {"fetch", "memory"}
YogaAutoInitMessage(cause) ==
    <<"Failed", "to", "auto-initialize", "Yoga", "layout", "engine:", cause,
      "Please", "call", "initYoga()", "explicitly.">>
NotInitializedMessage(et) ==
    <<"Layout", "engine", "not", "initialized.", "Please", "initialize", et, "first.">>
InitializeWasmMessage == <<"Could", "not", "initialize", "Taffy", "WASM", "module">>
SafeTaffyNodeMessage ==
    <<"Taffy", "WASM", "failed", "to", "load.", "Consider", "using", "Yoga",
      "layout", "engine", "instead.">>
InitSites == {"getLayoutEngine", "initializeWasm", "SafeTaffyNode.init"}

\* The error a failing initialization of the selected backend throws:
\* getLayoutEngine() of factory.ts, initializeWasm() behind TaffyNode and
\* SafeTaffyNode.init().
initError(site, et, cause) ==
    CASE site = "getLayoutEngine" ->
            IF et = LAYOUT_ENGINE_YOGA THEN YogaAutoInitMessage(cause)
            ELSE NotInitializedMessage(et)
      [] site = "initializeWasm" -> InitializeWasmMessage
      [] site = "SafeTaffyNode.init" -> SafeTaffyNodeMessage
initFails(site, et, cause) ==
    /\ site # "getLayoutEngine" => et = LAYOUT_ENGINE_TAFFY
    /\ fnCall' = [op |-> "init", site |-> site, engineType |-> et, cause |-> cause]
    /\ fnResult' = [threw |-> TRUE, message |-> initError(site, et, cause)]

\* The grid-only properties of a style and the setter compute() has for each.
GridProps == {"gridTemplateColumns", "gridTemplateRows", "gridTemplateAreas",
              "gridAutoFlow", "gridAutoColumns", "gridAutoRows", "gridColumn", "gridRow"}
\* The grid setters a node has: TaffyNode has one for every grid property,
\* YogaNodeAdapter has none.
gridSetters(a) == IF a = LAYOUT_ENGINE_TAFFY THEN GridProps ELSE {}

\* A call made without the test of the node (not the code).
gridSetterCalledUnguarded(inStyle, onNode) == inStyle

\* compute(): if (style.gridX && node.setGridX) node.setGridX(style.gridX).
gridSetterCalled(inStyle, onNode) == inStyle /\ onNode

\* compute(), the grid properties of one element: the setters called and
\* whether a call hit a method the node does not have (a TypeError).
setGridProperties(a, style) ==
    LET called == {p \in GridProps : gridSetterCalled(p \in style, p \in gridSetters(a))}
    IN  /\ fnCall' = [op |-> "grid", adapter |-> a, style |-> style]
        /\ fnResult' = [threw |-> called \ gridSetters(a) # {}, called |-> called]

\* TaffyNode.trackedMargin / trackedBorder / trackedPadding, all sides 0 at
\* construction.
EdgeKinds == {"margin", "border", "padding"}
NoSides == [side \in Sides |-> 0]
Untracked == [kind \in EdgeKinds |-> NoSides]

\* What is done to a node before its computed edges are read: a per-edge
\* setter of the adapter, a four-value setter, or a solve.
EdgeWrite(kind, edge, value) ==
    [form |-> "edge", kind |-> kind, edge |-> edge, value |-> value, sides |-> NoSides]
SidesWrite(kind, sides) ==
    [form |-> "sides", kind |-> kind, edge |-> 0, value |-> 0, sides |-> sides]
Solve == [form |-> "solve", kind |-> "margin", edge |-> 0, value |-> 0, sides |-> NoSides]
TrackedOps ==
    {EdgeWrite(kind, edge, value) : kind \in EdgeKinds, edge \in Edges, value \in 0 .. MaxSize}
        \cup {SidesWrite(kind, [NoSides EXCEPT ![side] = value]) :
                 kind \in EdgeKinds, side \in Sides, value \in {0, MaxSize}}
        \cup {Solve}
RECURSIVE SeqsUpTo(_, _)
SeqsUpTo(S, n) ==
    IF n = 0 THEN {<<>>}
    ELSE SeqsUpTo(S, n - 1) \cup {Append(q, x) : q \in SeqsUpTo(S, n - 1), x \in S}

\* TaffyNode.setMarginLeft(value) and the like: this.trackedMargin.left = value.
taffyNodeSetSide(tracked, kind, side, value) ==
    [tracked EXCEPT ![kind][side] = value]
\* A four-value setter without the tracking (not the code).
taffyNodeSetSidesUntracked(tracked, kind, sides) == tracked
\* TaffyNode.setMargin(top, right, bottom, left) and the like:
\* this.trackedMargin = { top, right, bottom, left }.
taffyNodeSetSides(tracked, kind, sides) ==
    [tracked EXCEPT ![kind] = [side \in Sides |-> sides[side]]]

\* One call on the TaffyNodeAdapter; computeLayout assigns no tracked value.
trackedAfter(tracked, w) ==
    CASE w.form = "edge" -> taffyNodeSetSide(tracked, w.kind, taffySetEdge(w.edge), w.value)
      [] w.form = "sides" -> taffyNodeSetSides(tracked, w.kind, w.sides)
      [] w.form = "solve" -> tracked
RECURSIVE trackedAfterAll(_, _)
trackedAfterAll(tracked, ops) ==
    IF ops = <<>> THEN tracked
    ELSE trackedAfterAll(trackedAfter(tracked, Head(ops)), Tail(ops))

\* The calls on a new node, then getComputedMargin / Border / Padding of
\* every edge.
readComputedEdges(ops) ==
    /\ fnCall' = [op |-> "tracked", ops |-> ops]
    /\ fnResult' = [kind \in EdgeKinds |-> [edge \in Edges |->
                       trackedAfterAll(Untracked, ops)[kind][taffyGetComputed(edge)]]]

\* The keywords of align-content that both adapters accept.
AlignKeywords ==
    {"flex-start", "flex-end", "center", "stretch", "baseline", "space-between",
     "space-around"}

\* YogaNodeAdapter.mapAlign: the Yoga constant handed to node.setAlignContent.
mapAlign(align) ==
    CASE align = "auto" -> "ALIGN_AUTO"
      [] align = "flex-start" -> "ALIGN_FLEX_START"
      [] align = "center" -> "ALIGN_CENTER"
      [] align = "flex-end" -> "ALIGN_FLEX_END"
      [] align = "stretch" -> "ALIGN_STRETCH"
      [] align = "baseline" -> "ALIGN_BASELINE"
      [] align = "space-between" -> "ALIGN_SPACE_BETWEEN"
      [] align = "space-around" -> "ALIGN_SPACE_AROUND"
      [] OTHER -> "ALIGN_AUTO"

\* TaffyNode.setAlignContent: the value left in pendingStyle.align_content.
\* The switch of index.ts has no case for "center"; that of taffy-prebuilt.ts
\* has.
taffyAlignContent(b, align) ==
    CASE align = "flex-start" -> "FlexStart"
      [] align = "flex-end" -> "FlexEnd"
      [] align = "center" /\ b = "prebuilt" -> "Center"
      [] align = "stretch" -> "Stretch"
      [] align = "baseline" -> "Center"
      [] align = "space-between" -> "SpaceBetween"
      [] align = "space-around" -> "SpaceAround"
      [] OTHER -> "Stretch"

\* setAlignContent(align) on the adapter of each backend; the Taffy adapter
\* hands the keyword to TaffyNode.setAlignContent as it is.
setAlignContent(b, align) ==
    /\ fnCall' = [op |-> "setAlignContent", build |-> b, align |-> align]
    /\ fnResult' = [yoga |-> mapAlign(align), taffy |-> taffyAlignContent(b, align)]

\* JavaScript numbers of the image measurement, kept as exact fractions;
\* def is FALSE for undefined.
Rat(n, d) == [def |-> TRUE, num |-> n, den |-> d]
NoRat == [def |-> FALSE, num |-> 0, den |-> 1]
RatLess(a, b) == a.num * b.den < b.num * a.den
RatMin(a, b) == IF RatLess(b, a) THEN b ELSE a
RatMax(a, b) == IF RatLess(a, b) THEN b ELSE a
RatTimes(a, b) == Rat(a.num * b.num, a.den * b.den)
RatOver(a, b) == Rat(a.num * b.den, a.den * b.num)

\* style.maxWidth || style.maxHeight: a value of the style is truthy.
truthy(value) ==
    \/ value.type = "string"
    \/ value.type = "number" /\ value.n # 0

\* "Convert percentage max values to absolute values": the maximum the
\* measure function takes from style.maxWidth or style.maxHeight, given the
\* available space of that axis (NoRat when it is undefined).
styleMax(value, available) ==
    IF ~truthy(value) THEN NoRat
    ELSE IF value.type = "string" /\ value.unit = "%"
    THEN IF available.def THEN RatTimes(available, Rat(value.n, 100)) ELSE NoRat
    ELSE IF value.type = "number" THEN Rat(value.n, 1)
    ELSE NoRat

\* "Also consider the available container space as implicit max
\* constraints".
withAvailable(max, available) ==
    IF available.def /\ RatLess(Rat(0, 1), available)
    THEN IF max.def THEN RatMin(max, available) ELSE available
    ELSE max

\* "Scale up to utilize available space while respecting max constraints":
\* whether the width is replaced by the maximum width.
scaledToWidth(maxWidth, finalWidth) ==
    maxWidth.def /\ RatLess(finalWidth, maxWidth)

\* The callback compute() gives node.setMeasureFunc for an image with max
\* constraints and no explicit size.
imageMeasure(image, maxW, maxH, availableWidth, availableHeight) ==
    LET originalImageWidth == Rat(image.width, 1)
        originalImageHeight == Rat(image.height, 1)
        aspectRatio == RatOver(originalImageWidth, originalImageHeight)
        maxWidth == withAvailable(styleMax(maxW, availableWidth), availableWidth)
        maxHeight == withAvailable(styleMax(maxH, availableHeight), availableHeight)
        up == scaledToWidth(maxWidth, originalImageWidth)
        width1 == IF up THEN maxWidth ELSE originalImageWidth
        height1 == IF up THEN RatOver(width1, aspectRatio) ELSE originalImageHeight
        down == maxHeight.def /\ RatLess(maxHeight, height1)
        finalHeight == IF down THEN maxHeight ELSE height1
        finalWidth == IF down THEN RatTimes(finalHeight, aspectRatio) ELSE width1
    IN  IF availableWidth = Rat(0, 1)
        THEN [width |-> originalImageWidth, height |-> originalImageHeight]
        ELSE [width |-> RatMax(Rat(0, 1), finalWidth),
              height |-> RatMax(Rat(0, 1), finalHeight)]

\* The backend measures an image node whose style has a max constraint.
measureImage(image, maxW, maxH, availableWidth, availableHeight) ==
    /\ truthy(maxW) \/ truthy(maxH)
    /\ fnCall' = [op |-> "measureImage", image |-> image, maxWidth |-> maxW,
                  maxHeight |-> maxH, availableWidth |-> availableWidth,
                  availableHeight |-> availableHeight]
    /\ fnResult' = imageMeasure(image, maxW, maxH, availableWidth, availableHeight)

\* What compute() does for one element.  The steps are pure functions of
\* their arguments, so a behaviour applies one of them, once.
NextCompute ==
    /\ fnCall = NoCall
    /\ \/ \E preset, inheritedStyle, definedStyle \in Styles :
              resolveStyle(preset, inheritedStyle, definedStyle)
       \/ \E a \in EngineTypes, prop \in Dimensions, value \in StyleValues :
              translateDimension(a, prop, value)
       \/ \E a \in EngineTypes, value \in StyleValues : translateFlexBasis(a, value)
       \/ \E value \in Templates : setGridTemplateColumns(value)
       \/ \E adapter \in EdgeAdapters, method \in EdgeSetters, edge \in Edges,
              value \in EdgeValues : setEdge(adapter, method, edge, value)
       \/ \E adapter \in EdgeAdapters, method \in EdgeGetters, edge \in Edges :
              getComputedEdge(adapter, method, edge)
       \/ \E image \in ImageSizes, props, style \in SizeProps :
              computeImage(image, props, style)
       \/ \E site \in InitSites, et \in EngineTypes, cause \in Causes :
              initFails(site, et, cause)
       \/ \E a \in EngineTypes, style \in SUBSET GridProps : setGridProperties(a, style)
       \/ \E ops \in SeqsUpTo(TrackedOps, MaxEdgeWrites) : readComputedEdges(ops)
       \/ \E b \in Builds, align \in AlignKeywords : setAlignContent(b, align)
       \/ \E width, height \in 1 .. MaxSize, maxW, maxH \in StyleValues,
               availableWidth \in {Rat(k, 1) : k \in 0 .. MaxSize},
               availableHeight \in {NoRat} \cup {Rat(k, 1) : k \in 0 .. MaxSize} :
             measureImage([width |-> width, height |-> height], maxW, maxH,
                          availableWidth, availableHeight)
    /\ UNCHANGED <<taffyVars, engineVars, measureVars, guardVars, initVars>>

(***************************************************************************)
(* FIRST-USE INITIALIZATION OF THE TAFFY BACKEND: getTaffy (taffy.ts),     *)
(* ensureWasmInitialized (taffy/index.ts, behind TaffyRoot.createRoot) and *)
(* initializeGlobalTree (the global-tree wrapper, behind TaffyNode.create).*)
(* An async function runs without interruption up to its next await.       *)
(***************************************************************************)
CallerIds == 1 .. MaxCallers
Idle == [fn |-> None, pc |-> "idle", awaits |-> 0]
At(c, fn, pc, awaits) ==
    callers' = [callers EXCEPT ![c] = [fn |-> fn, pc |-> pc, awaits |-> awaits]]
Ran(what) == initRuns' = [initRuns EXCEPT ![what] = @ + 1]

\* getTaffy(), up to its first await.
getTaffy(c) ==
    /\ callers[c].pc = "idle"
    /\ IF taffyInstance
       THEN /\ At(c, "getTaffy", "done", 0)
            /\ UNCHANGED <<initializationPromise, initRuns>>
       ELSE IF initializationPromise # 0
       THEN /\ At(c, "getTaffy", "awaitOther", initializationPromise)
            /\ UNCHANGED <<initializationPromise, initRuns>>
       ELSE /\ initializationPromise' = initRuns.import + 1
            /\ Ran("import")
            /\ At(c, "getTaffy", "awaitOwn", initRuns.import + 1)
    /\ UNCHANGED <<taffyInstance, imported, wasmInitPromise, isInitialized>>

\* import('@taffy').then(getTaffyModule).then(taffy => taffyInstance = taffy)
\* settles.
importResolves(id) ==
    /\ id \in 1 .. initRuns.import
    /\ id \notin imported
    /\ imported' = imported \cup {id}
    /\ taffyInstance' = TRUE
    /\ UNCHANGED <<initializationPromise, wasmInitPromise, isInitialized, callers, initRuns>>

\* getTaffy() after its await: the caller that started the import clears
\* initializationPromise; both return taffyInstance.
getTaffyResumes(c) ==
    /\ callers[c].pc \in {"awaitOwn", "awaitOther"}
    /\ callers[c].awaits \in imported
    /\ initializationPromise' =
          IF callers[c].pc = "awaitOwn" THEN 0 ELSE initializationPromise
    /\ At(c, "getTaffy", "done", 0)
    /\ UNCHANGED <<taffyInstance, imported, wasmInitPromise, isInitialized, initRuns>>

\* TaffyRoot.createRoot(): await ensureWasmInitialized(), which starts
\* initializeWasm() when wasmInitPromise is null.
ensureWasmInitialized(c) ==
    /\ callers[c].pc = "idle"
    /\ IF wasmInitPromise = "null"
       THEN wasmInitPromise' = "pending" /\ Ran("wasmInit")
       ELSE UNCHANGED <<wasmInitPromise, initRuns>>
    /\ At(c, "createRoot", "awaitWasm", 0)
    /\ UNCHANGED <<taffyInstance, initializationPromise, imported, isInitialized>>

\* initializeWasm() settles.
wasmInitResolves ==
    /\ wasmInitPromise = "pending"
    /\ wasmInitPromise' = "resolved"
    /\ UNCHANGED <<taffyInstance, initializationPromise, imported, isInitialized,
                   callers, initRuns>>

\* TaffyRoot.createRoot() after its await.
createRootResumes(c) ==
    /\ callers[c].pc = "awaitWasm"
    /\ wasmInitPromise = "resolved"
    /\ At(c, "createRoot", "done", 0)
    /\ UNCHANGED <<taffyInstance, initializationPromise, imported, wasmInitPromise,
                   isInitialized, initRuns>>

\* TaffyNode.create(): await initializeGlobalTree(), up to its
\* await instantiate().
initializeGlobalTree(c) ==
    /\ callers[c].pc = "idle"
    /\ IF isInitialized
       THEN At(c, "create", "done", 0)
       ELSE At(c, "create", "instantiate", 0)
    /\ UNCHANGED <<taffyInstance, initializationPromise, imported, wasmInitPromise,
                   isInitialized, initRuns>>

\* initializeGlobalTree() after its await: globalTree = new TaffyTree().
initializeGlobalTreeResumes(c) ==
    /\ callers[c].pc = "instantiate"
    /\ Ran("tree")
    /\ isInitialized' = TRUE
    /\ At(c, "create", "done", 0)
    /\ UNCHANGED <<taffyInstance, initializationPromise, imported, wasmInitPromise>>

NextInit ==
    /\ \/ \E c \in CallerIds : getTaffy(c)
       \/ \E id \in CallerIds : importResolves(id)
       \/ \E c \in CallerIds : getTaffyResumes(c)
       \/ \E c \in CallerIds : ensureWasmInitialized(c)
       \/ wasmInitResolves
       \/ \E c \in CallerIds : createRootResumes(c)
       \/ \E c \in CallerIds : initializeGlobalTree(c)
       \/ \E c \in CallerIds : initializeGlobalTreeResumes(c)
    /\ UNCHANGED <<taffyVars, engineVars, measureVars, guardVars, fnVars>>

NextEngine ==
    /\ \/ \E t \in EngineTypes : setLayoutEngine(t)
       \/ initYoga
       \/ initTaffy
       \/ \E opt \in EngineTypes \cup {None} : satori(opt)
       \/ \E p \in 1 .. MaxPasses : yogaLoaded(p)
       \/ \E p \in 1 .. MaxPasses : finish(p)
    /\ UNCHANGED <<taffyVars, measureVars, guardVars, fnVars, initVars>>

NextPass ==
    /\ \/ \E t \in EngineTypes : setLayoutEngine(t)
       \/ \E opt \in EngineTypes \cup {None} : satori(opt)
       \/ \E p \in 1 .. MaxPasses : yogaLoaded(p)
       \/ \E p \in 1 .. MaxPasses, d \in Displays : compute(p, d)
       \/ \E p \in 1 .. MaxPasses : finish(p)
    /\ UNCHANGED <<taffyVars, measureVars, guardVars, fnVars, initVars>>

NextMeasure ==
    /\ \/ \E n \in MeasureNodes : setMeasureFunction(n)
       \/ \E n \in MeasureNodes : removeMeasureFunction(n)
       \/ \E width, height \in RootSizes : computeLayoutWithMeasure(width, height)
       \/ \E n \in MeasureNodes, aw, ah \in AvailableSpaces : measure(n, aw, ah)
       \/ computeLayoutReturns
    /\ UNCHANGED <<taffyVars, engineVars, guardVars, fnVars, initVars>>

\* The state after the modules are loaded and TaffyRoot is constructed: the
\* tree holds the root node only, yoga is selected, no engine is cached and
\* no measure function is registered.  The revisions of the Taffy wrapper and
\* of the factory that are linked in never change.
InitWith(builds, factories, rejected) ==
    /\ build \in builds
    /\ invalid \in rejected
    /\ nodeCount = 1
    /\ children = [n \in NodeIds |-> <<>>]
    /\ pendingStyle = [n \in NodeIds |-> 0]
    /\ styleNeedsUpdate = [n \in NodeIds |-> FALSE]
    /\ pendingStyleUpdates = {}
    /\ treeStyle = [n \in NodeIds |-> 0]
    /\ hasLayoutBeenCalculated = FALSE
    /\ solvedStyle = [n \in NodeIds |-> 0]
    /\ writtenSinceSolve = FALSE
    /\ flushLog = <<>>
    /\ lastOp = [kind |-> "createRoot", node |-> rootNode, afterWrite |-> FALSE]
    /\ factory \in factories
    /\ engineType = LAYOUT_ENGINE_YOGA
    /\ currentEngine = Null
    /\ taffyCtor = FALSE
    /\ engines = [e \in EngineIds |-> NoEngine]
    /\ clientCalls = 0
    /\ sel = "none"
    /\ pass = <<>>
    /\ measureFunctions = {}
    /\ solveArgs = NotSolving
    /\ lastMeasure = NoMeasure
    /\ measureDepth = [n \in MeasureNodes |-> 0]
    /\ invocations = [n \in MeasureNodes |-> 0]
    /\ lastGoodMeasurement = [n \in MeasureNodes |-> NullMeasurement]
    /\ guardCall = NoGuardCall
    /\ fnCall = NoCall
    /\ fnResult = NoCall
    /\ taffyInstance = FALSE
    /\ initializationPromise = 0
    /\ imported = {}
    /\ wasmInitPromise = "null"
    /\ isInitialized = FALSE
    /\ callers = [c \in CallerIds |-> Idle]
    /\ initRuns = [import |-> 0, wasmInit |-> 0, tree |-> 0]

NextGuard ==
    /\ \/ \E n \in MeasureNodes : newGuard(n)
       \/ \E n \in MeasureNodes, width \in 0 .. MaxSize : taffyEnhancedMeasureFunc(n, width)
       \/ \E n \in MeasureNodes, m \in Measurements : measureFuncReturns(n, m)
    /\ UNCHANGED <<taffyVars, engineVars, measureVars, fnVars, initVars>>

\* The recursion guard around measure functions that can throw.
NextThrow ==
    /\ \/ \E n \in MeasureNodes : newGuard(n)
       \/ \E n \in MeasureNodes, width \in 0 .. MaxSize : taffyEnhancedMeasureFunc(n, width)
       \/ \E n \in MeasureNodes, m \in Measurements : measureFuncReturns(n, m)
       \/ \E n \in MeasureNodes : measureFuncThrows(n)
    /\ UNCHANGED <<taffyVars, engineVars, measureVars, fnVars, initVars>>

\* The Taffy wrapper in both builds.
InitTaffy == InitWith(Builds, {"factory"}, {{}})
\* The factory in its three revisions.
InitEngine == InitWith({"index"}, Factories, {{}})
\* The render pass with its element translation: compute.ts imports
\* getLayoutEngineType, which only the part_002 revision of the factory exports.
InitPass == InitWith({"index"}, {"part_002"}, {{}})
\* The measurement bridge, whose text is the same in both builds.
InitMeasure == InitWith({"index"}, {"factory"}, {{}})
\* The recursion guard of the measure functions.
InitGuard == InitWith({"index"}, {"factory"}, {{}})
\* The translation of one element by compute().
InitCompute == InitWith({"index"}, {"part_002"}, {{}})
\* The Taffy wrapper of index.ts on a backend that rejects some styles.
InitFlush == InitWith({"index"}, {"factory"}, {{}} \cup {{k} : k \in 1 .. MaxWrites})
\* The first use of the Taffy backend by concurrent callers.
InitInit == InitWith({"index"}, {"factory"}, {{}})

SpecTaffy == InitTaffy /\ [][NextTaffy]_vars
SpecEngine == InitEngine /\ [][NextEngine]_vars
SpecPass == InitPass /\ [][NextPass]_vars
SpecMeasure == InitMeasure /\ [][NextMeasure]_vars
SpecGuard == InitGuard /\ [][NextGuard]_vars
SpecCompute == InitCompute /\ [][NextCompute]_vars
SpecInit == InitInit /\ [][NextInit]_vars
SpecThrow == InitGuard /\ [][NextThrow]_vars
SpecFlush == InitFlush /\ [][NextFlush]_vars

(***************************************************************************)
(* Claims about the factory and the render pass.                           *)
(***************************************************************************)
Passes == 1 .. Len(pass)
Resolved(p) == pass[p].engine # 0

\* C3: after setLayoutEngine(t), followed by the matching init call where the
\* factory has one, with no pass in flight, the next getLayoutEngine()
\* resolves to an engine of type t, whatever was constructed before.
C3_ReselectionTakesEffect ==
    \A p \in Passes :
        pass[p].reselected =>
            /\ pass[p].pc # "threw"
            /\ Resolved(p) => TypeOf(pass[p].engine) = pass[p].wantType

\* C4: while the selection is unchanged, getLayoutEngine() constructs at most
\* one engine instance and every caller receives that same instance.
C4_OneInstancePerSelection ==
    /\ Cardinality({e \in EngineIds : engines[e].by = "get" /\ engines[e].fresh}) <= 1
    /\ \A p, q \in Passes :
          (/\ Resolved(p) /\ Resolved(q)
           /\ pass[p].stable /\ pass[q].stable)
          => pass[p].engine = pass[q].engine

\* C5: a pass decides the grid fallback of every grid element by the backend
\* it captured at its start: rewritten to flex and warned about on Yoga, left
\* as grid without warning on Taffy, whatever the global selection is by then.
C5_PassUsesCapturedBackend ==
    \A p \in Passes :
        pass[p].last.display = "grid" =>
            /\ pass[p].last.warned = (TypeOf(pass[p].engine) = LAYOUT_ENGINE_YOGA)
            /\ pass[p].last.handed =
                  (IF TypeOf(pass[p].engine) = LAYOUT_ENGINE_YOGA THEN "flex" ELSE "grid")

\* C6: a satori call with options.layoutEngine = t builds and solves its tree
\* on backend t.
C6_PerCallOptionWins ==
    \A p \in Passes :
        (pass[p].opt # None /\ pass[p].pc = "done") =>
            TypeOf(pass[p].engine) = pass[p].opt

\* The selection is the default until setLayoutEngine is called: no client
\* has called it, and no call before pass p carried the option.
DefaultBefore(p) ==
    /\ clientCalls = 0
    /\ \A q \in 1 .. (p - 1) : pass[q].opt = None

\* C28: once a satori call with options.layoutEngine = t has returned, with
\* the selection left alone by everyone else meanwhile, the global selection
\* is what it was before the call (here: the default, yoga).
C28_PerCallOptionIsScoped ==
    \A p \in Passes :
        (DefaultBefore(p) /\ pass[p].opt # None /\ pass[p].pc = "done" /\ pass[p].stable)
            => engineType = LAYOUT_ENGINE_YOGA

\* C8: a finished pass during which the selection was left alone has emitted
\* exactly one unsupported-grid warning when it ran on Yoga and its tree has at
\* least one grid element, however many, and none otherwise.
C8_ExactlyOneWarningPerPass ==
    \A p \in Passes :
        (pass[p].pc = "done" /\ pass[p].stable) =>
            pass[p].warnings =
                (IF TypeOf(pass[p].engine) = LAYOUT_ENGINE_YOGA /\ pass[p].grids > 0
                 THEN 1 ELSE 0)

C12_PercentageStaysPercentage ==
    (/\ fnCall.op = "setDimension"
     /\ fnCall.value.type = "string"
     /\ fnCall.value.unit = "%")
    => /\ fnResult.unit = "percent"
       /\ fnResult.num * 100 = fnCall.value.n * fnResult.den

(***************************************************************************)
(* Claims about the alignment keywords.                                    *)
(***************************************************************************)
\* The alignment a backend gives to the value it is handed.
Alignment(value) ==
    CASE value \in {"ALIGN_FLEX_START", "FlexStart"} -> "flex-start"
      [] value \in {"ALIGN_FLEX_END", "FlexEnd"} -> "flex-end"
      [] value \in {"ALIGN_CENTER", "Center"} -> "center"
      [] value \in {"ALIGN_STRETCH", "Stretch"} -> "stretch"
      [] value \in {"ALIGN_SPACE_BETWEEN", "SpaceBetween"} -> "space-between"
      [] value \in {"ALIGN_SPACE_AROUND", "SpaceAround"} -> "space-around"
      [] value = "ALIGN_BASELINE" -> "baseline"
      [] OTHER -> "auto"

\* C26: setAlignContent gives every alignment keyword the same meaning on
\* both adapters.
C26_AlignContentAgrees ==
    fnCall.op = "setAlignContent" =>
        Alignment(fnResult.yoga) = Alignment(fnResult.taffy)

(***************************************************************************)
(* Claims about the measurement of an image.                               *)
(***************************************************************************)
\* The effective maximum of an axis: the smaller of the style's maximum and
\* the available space, whichever of the two there are.
EffectiveMax(value, available) ==
    LET fromStyle ==
            IF value.type = "number" /\ value.n > 0 THEN Rat(value.n, 1)
            ELSE IF value.type = "string" /\ value.unit = "%" /\ available.def
            THEN Rat(available.num * value.n, available.den * 100)
            ELSE NoRat
        fromSpace == IF available.def /\ available.num > 0 THEN available ELSE NoRat
    IN  CASE fromStyle.def /\ fromSpace.def ->
                 IF RatLess(fromStyle, fromSpace) THEN fromStyle ELSE fromSpace
          [] fromStyle.def /\ ~fromSpace.def -> fromStyle
          [] OTHER -> fromSpace

\* C27: for every available width above 0, the width the image callback
\* returns is at most the effective maximum width and the height at most the
\* effective maximum height, whatever the intrinsic size of the image.
C27_ImageMeasureRespectsMax ==
    (fnCall.op = "measureImage" /\ fnCall.availableWidth.num > 0) =>
        LET maxWidth == EffectiveMax(fnCall.maxWidth, fnCall.availableWidth)
            maxHeight == EffectiveMax(fnCall.maxHeight, fnCall.availableHeight)
        IN  /\ ~RatLess(maxWidth, fnResult.width)
            /\ maxHeight.def => ~RatLess(maxHeight, fnResult.height)

(***************************************************************************)
(* Claims about the grid properties of an element.                         *)
(***************************************************************************)
\* C22: the translator calls a grid setter only when the node has it, so
\* on the Yoga node grid properties throw nothing and call nothing.
C22_GridPropertiesAreNoOpsOnYoga ==
    fnCall.op = "grid" =>
        /\ ~fnResult.threw
        /\ fnResult.called \subseteq gridSetters(fnCall.adapter)
        /\ fnCall.adapter = LAYOUT_ENGINE_YOGA => fnResult.called = {}

\* Every grid property set on an element that the Yoga node translates.
C22_Witness ==
    /\ fnCall.op = "grid"
    /\ fnCall.adapter = LAYOUT_ENGINE_YOGA
    /\ fnCall.style = GridProps
    /\ fnResult.called = {}

(***************************************************************************)
(* Claims about the first-use initialization of the Taffy backend.         *)
(***************************************************************************)
\* C21: whatever the interleaving of concurrent first calls, the module
\* import, the WASM initialization and the construction of the shared tree
\* each run at most once.
C21_InitializationRunsOnce ==
    /\ initRuns.import <= 1
    /\ initRuns.wasmInit <= 1
    /\ initRuns.tree <= 1

(***************************************************************************)
(* Claims about compute(): style, image size, backend initialization.      *)
(***************************************************************************)
\* C15: a property with a preset value and an inherited value and no
\* explicit declaration resolves to the inherited value; an explicit
\* declaration always wins.
C15_InheritedBeatsPreset ==
    fnCall.op = "style" =>
        \A p \in StyleProps :
            /\ fnCall.defined[p] # Absent => fnResult[p] = fnCall.defined[p]
            /\ (/\ fnCall.defined[p] = Absent
                /\ fnCall.preset[p] # Absent
                /\ fnCall.inherited[p] # Absent) => fnResult[p] = fnCall.inherited[p]

\* An explicit size: width and height both given.
ExplicitSize(size) == size.width # Absent /\ size.height # Absent

\* C19: an image fails with 'Image size cannot be determined' exactly when
\* its intrinsic size cannot be resolved and neither its attributes nor its
\* style give it a width and a height.
C19_ImageFailsIffNoSize ==
    fnCall.op = "img" =>
        (fnResult.threw <=>
            /\ fnCall.image.width = Absent /\ fnCall.image.height = Absent
            /\ ~ExplicitSize(fnCall.props)
            /\ ~ExplicitSize(fnCall.style))

\* The backend that is not the selected one, as messages spell it.
Alternative(et) == IF et = LAYOUT_ENGINE_YOGA THEN "Taffy" ELSE "Yoga"
Names(message, word) == \E i \in 1 .. Len(message) : message[i] = word

\* C20: the error of a failed backend initialization names the alternative
\* backend.
C20_InitErrorNamesAlternative ==
    fnCall.op = "init" =>
        /\ fnResult.threw
        /\ Names(fnResult.message, Alternative(fnCall.engineType))

(***************************************************************************)
(* Claims about the edge-indexed operations.                               *)
(***************************************************************************)
\* The side the edge constants give an index.
CanonicalSide(edge) ==
    CASE edge = EDGE_LEFT -> "left"
      [] edge = EDGE_TOP -> "top"
      [] edge = EDGE_RIGHT -> "right"
      [] edge = EDGE_BOTTOM -> "bottom"

\* C14: whichever the adapter, every edge-indexed setter and getter reaches
\* the side the canonical index names: 0 left, 1 top, 2 right, 3 bottom.
C14_EdgeIndexIsCanonical ==
    fnCall.op = "edge" => fnResult.side = CanonicalSide(fnCall.edge)

(***************************************************************************)
(* Claims about the computed edges of a Taffy node.                        *)
(***************************************************************************)
\* The value written last for a side: by the per-edge setter with the
\* canonical index of the side, or by the four-value setter; 0 if none.
RECURSIVE LastWritten(_, _, _)
LastWritten(ops, kind, side) ==
    IF ops = <<>> THEN 0
    ELSE LET w == ops[Len(ops)]
         IN  IF w.form = "edge" /\ w.kind = kind /\ CanonicalSide(w.edge) = side
             THEN w.value
             ELSE IF w.form = "sides" /\ w.kind = kind
             THEN w.sides[side]
             ELSE LastWritten(SubSeq(ops, 1, Len(ops) - 1), kind, side)

Parsed == fnCall.op = "parseGridTemplate"

\* C13: minmax(apx, Nfr) parses to exactly one track, and the track Taffy
\* receives has the fixed length a as its minimum and the flexible share
\* fr(N) as its maximum, not a length of N.
C13_MinmaxKeepsFlexibleMaximum ==
    \A a, n \in TrackSizes :
        (Parsed /\ fnCall.value = Minmax2(<<Dim(a, "px")>>, <<Dim(n, "fr")>>))
        => /\ ~fnResult.threw
           /\ Len(fnResult.tracks) = 1
           /\ fnResult.taffy[1].min = [unit |-> "length", num |-> a, den |-> 1]
           /\ fnResult.taffy[1].max = [unit |-> "fr", num |-> n, den |-> 1]

\* The tracks of a pattern, count times over, in order.
RECURSIVE TimesOver(_, _)
TimesOver(count, tracks) ==
    IF count = 0 THEN <<>> ELSE tracks \o TimesOver(count - 1, tracks)

\* C24: for every N >= 1 and every pattern of k space-separated fr, length
\* or auto tokens, repeat(N, pattern) parses to N * k tracks: the tracks of
\* the pattern, N times over, in order; repeat(3, 1fr 10px) parses to fr(1),
\* px(10), fr(1), px(10), fr(1), px(10).
C24_RepeatExpandsPattern ==
    /\ \A n \in 1 .. MaxRepeat : \A pattern \in PlainPatterns :
           (Parsed /\ fnCall.value = RepeatOf(n, pattern))
           => /\ ~fnResult.threw
              /\ Len(fnResult.tracks) = n * ((Len(pattern) + 1) \div 2)
              /\ fnResult.tracks = TimesOver(n, parseGridTemplate(pattern).tracks)
    /\ (Parsed /\ fnCall.value = ExampleRepeat)
       => /\ ~fnResult.threw
          /\ Len(fnResult.tracks) = 6
          /\ \A i \in 1 .. Len(fnResult.tracks) :
                /\ fnResult.tracks[i].type = (IF i % 2 = 1 THEN "fr" ELSE "px")
                /\ fnResult.tracks[i].value = JsNumber(IF i % 2 = 1 THEN 1 ELSE 10)

\* repeat(2, 1fr auto) has been parsed to four tracks.
C24_Witness ==
    /\ Parsed
    /\ fnCall.value = RepeatOf(MaxRepeat, <<Dim(1, "fr"), Char(" "), Word("auto")>>)
    /\ Len(fnResult.tracks) = 2 * MaxRepeat
    /\ fnResult.tracks[1].type = "fr"
    /\ fnResult.tracks[2].type = "auto"
    /\ fnResult.tracks[2 * MaxRepeat].type = "auto"

\* C16: repeat(N, minmax(a, b)) parses to N tracks, each equal to the one
\* track of minmax(a, b).
C16_RepeatExpandsMinmax ==
    \A n \in 1 .. MaxRepeat : \A a, b \in Arguments :
        (Parsed /\ fnCall.value = RepeatOf(n, Minmax2(a, b)))
        => /\ ~fnResult.threw
           /\ Len(fnResult.tracks) = n
           /\ \A i \in 1 .. Len(fnResult.tracks) :
                 fnResult.tracks[i] = parseGridTemplate(Minmax2(a, b)).tracks[1]

\* C17: the parser never throws, whatever the template: unknown tokens, a
\* repeat() it cannot expand, a minmax() with one or three arguments.
C17_ParserNeverThrows ==
    Parsed => ~fnResult.threw

\* C18: a track written 'N%' reaches Taffy as a percentage of N percent,
\* never as a length of N pixels.
C18_PercentTrackStaysPercent ==
    \A n \in TrackSizes :
        (Parsed /\ fnCall.value = <<Dim(n, "%")>>)
        => /\ ~fnResult.threw
           /\ Len(fnResult.taffy) = 1
           /\ fnResult.taffy[1].max.unit = "percent"
           /\ fnResult.taffy[1].max.num * 100 = n * fnResult.taffy[1].max.den

(***************************************************************************)
(* Claims about the recursion guard.                                       *)
(***************************************************************************)
\* An invocation made while MAX_MEASURE_DEPTH invocations were in progress.
Refused == guardCall.seen /\ guardCall.inProgress >= MAX_MEASURE_DEPTH

\* C30: the depth counter of a node's guard always equals the number of
\* invocations of that node's callback in progress, and so is 0 whenever
\* none is in progress, also after the wrapped callback has thrown.
C30_DepthCountsInvocations ==
    \A n \in MeasureNodes : measureDepth[n] = invocations[n]

\* C11 as claimed: an invocation made while 10 invocations of a node's
\* callback are in progress does not call the callback and returns the most
\* recent measurement the callback returned before for that node.
C11_GuardReturnsLastMeasurement ==
    Refused =>
        /\ ~guardCall.called
        /\ ~guardCall.good.null
        /\ guardCall.returned = guardCall.good

\* C11 amended: such an invocation does not call the callback and returns
\* the most recent measurement the callback returned for that node when
\* there is one, and { width: max(width, 1), height: 20 } when there is none;
\* and below that depth the callback is called.
C11_GuardReturnsLastMeasurementOrDefault ==
    /\ Refused =>
          /\ ~guardCall.called
          /\ guardCall.returned =
                (IF guardCall.good.null
                 THEN Measurement(Max(guardCall.width, 1), 20)
                 ELSE lastGoodMeasurement[guardCall.node])
    /\ (guardCall.seen /\ ~Refused) => guardCall.called

\* C11 witness: a refused invocation that returned an earlier measurement.
C11_Witness ==
    /\ Refused
    /\ ~guardCall.good.null
    /\ guardCall.returned = guardCall.good

(***************************************************************************)
(* Claims about the measurement bridge.                                    *)
(***************************************************************************)
\* The three-way encoding of a constraint: the number itself,
\* MAX_SAFE_INTEGER for grow-to-fill, 0 for shrink-to-minimum.
Normalized(a) ==
    IF a = MaxContent THEN MAX_SAFE_INTEGER
    ELSE IF a = MinContent THEN Num(0)
    ELSE Num(a.n)

\* C10: whatever root width and height the solve was given, a registered
\* measurement callback receives, for width and for height independently,
\* n for Definite(n), MAX_SAFE_INTEGER for MaxContent and 0 for MinContent.
C10_CallbackGetsNormalizedConstraint ==
    (lastMeasure.seen /\ lastMeasure.called) =>
        /\ lastMeasure.actualAvailableWidth = Normalized(lastMeasure.width)
        /\ lastMeasure.actualAvailableHeight = Normalized(lastMeasure.height)

(***************************************************************************)
(* Claims about the Taffy backend.                                         *)
(***************************************************************************)
SolveOps == {"calculateLayout", "computeLayout"}

\* Position of node n in a sequence of nodes (0 when absent).
IndexIn(s, n) == IF \E i \in 1 .. Len(s) : s[i] = n
                 THEN CHOOSE i \in 1 .. Len(s) : s[i] = n
                 ELSE 0

\* The operations that flush and then solve.
Solved == lastOp.kind \in {"computeLayout", "calculateLayout"}
\* The nodes whose style update the backend rejected in the last operation.
Rejected == {n \in Range(flushLog) : pendingStyle[n] \in invalid}

\* C29: when the backend rejects the style update of a node during a flush,
\* the flush and the solve still complete and the write is discarded: the
\* tree keeps the style it had, the node is clean and its id has left the
\* pending set; and no flush applies the style of a clean node, so the write
\* is not applied again unless a setter is called again.
C29_RejectedUpdateIsDiscarded ==
    [][/\ Solved' =>
            /\ hasLayoutBeenCalculated'
            /\ solvedStyle' = treeStyle'
            /\ \A n \in Rejected' :
                  /\ ~styleNeedsUpdate'[n]
                  /\ n \notin pendingStyleUpdates'
                  /\ treeStyle'[n] = treeStyle[n]
                  /\ treeStyle'[n] # pendingStyle'[n]
       /\ Solved' =>
            \A n \in NodeIds : ~styleNeedsUpdate[n] => n \notin Range(flushLog')
      ]_vars

\* A solve has flushed a node whose style the backend rejected, after an
\* earlier style of the node had been accepted.
C29_Witness ==
    /\ Solved
    /\ \E n \in Rejected : treeStyle[n] > 0 /\ ~styleNeedsUpdate[n]

\* C1: after every solve entry point (TaffyRoot.computeLayout called directly,
\* TaffyNode.calculateLayout called on any node) the solver has run on the
\* staged style of every node attached under the tree root: no attached
\* node's pending write is missed.
C1_SolveAppliesEveryAttachedWrite ==
    lastOp.kind \in SolveOps =>
        \A n \in Attached : solvedStyle[n] = pendingStyle[n]

\* C2: a geometry getter called after a style write that followed a solve
\* returns geometry of a solve that included the write: the styles the
\* returned layout was computed from are the styles as written.
C2_GetterNeverReturnsStaleGeometry ==
    (lastOp.kind = "getComputed" /\ lastOp.afterWrite /\ lastOp.node \in Attached) =>
        \A n \in Attached : solvedStyle[n] = pendingStyle[n]

\* C7: whichever node calculateLayout was invoked on, the staged styles are
\* applied in document order: a node before each of its descendants, and
\* siblings in child-list order.
C7_FlushInDocumentOrder ==
    lastOp.kind = "calculateLayout" =>
        /\ \A i, j \in 1 .. Len(flushLog) :
              flushLog[j] \in Descendants(flushLog[i]) => i < j
        /\ \A p \in NodeIds : \A a, b \in 1 .. Len(children[p]) :
              (/\ a < b
               /\ IndexIn(flushLog, children[p][a]) > 0
               /\ IndexIn(flushLog, children[p][b]) > 0)
              => IndexIn(flushLog, children[p][a]) < IndexIn(flushLog, children[p][b])

====
